---- MODULE Spec2Model ----
(***************************************************************************)
(* Model of src/src/auth0-sso-login.js: the `auth` class that keeps an     *)
(* Auth0 session alive (silent renewal with retries, fallback to the       *)
(* Auth0Lock widget, scheduled renewal timer, logout / removeLogin).       *)
(*                                                                         *)
(* JavaScript is single threaded: one action of this model is one task of  *)
(* the event loop (a public method call, a provider callback, a timer      *)
(* firing, a hook promise settling) together with all the promise          *)
(* reactions (microtasks) it triggers.                                     *)
(*                                                                         *)
(* The collaborators (auth0-js, auth0-lock, the hooks of the               *)
(* configuration) are the environment: the provider answers each call once *)
(* with any of its results, a hook returns a promise and does not throw,   *)
(* and the widget delivers its events while it waits for the user.         *)
(***************************************************************************)
EXTENDS Integers, Sequences, FiniteSets, TLC

VARIABLES
    hooks,              \* this.config.hooks: the names of the configured hooks
    authResult,         \* this.authResult
    tokenRefreshHandle, \* this.tokenRefreshHandle (0 models null)
    timers,             \* pending timers created by windowInteraction.setTimeout
    calls,              \* the ensureLoggedIn invocations in progress, by slot
    last,               \* history: the task that ran last and what it did
    probe               \* inputs and result of one evaluation of the expiry function

vars == <<hooks, authResult, tokenRefreshHandle, timers, calls, last, probe>>

sessionVars == <<hooks, authResult, tokenRefreshHandle, timers, calls, last>>

----------------------------------------------------------------------------
(* Bounds of the model.                                                    *)

\* number of ensureLoggedIn invocations (by the caller or by the renewal timer)
\* that may be in progress at the same time
MaxCalls == 2

\* the longest token lifetime (expiresIn, seconds) the provider hands out
MaxExpiresIn == 3

----------------------------------------------------------------------------
(* Program constants.                                                      *)

\* retries < 4
MaxRetries == 4

\* setTimeout(() => resolve(), 1000)
RetryDelayMillis == 1000

\* the step of the clock: the retry delay
TickMillis == RetryDelayMillis

\* this.tokenRefreshHandle = null; this.authResult = null (constructor)
NoHandle == 0

Null == [null |-> TRUE]

HookNames == {"tokenRefreshed", "profileRefreshed", "removeLogin", "logout"}

\* the configurations of this.config.hooks the model is run with
HookConfigs == {{}, HookNames}

\* the lifetimes (expiresIn, seconds) of the tokens the provider hands out
ExpiresInValues == {0, MaxExpiresIn}

----------------------------------------------------------------------------
(* Expiry: getRemainingMillisToTokenEpxiry.  dateNow1 and dateNow2 are the *)
(* values of the two Date.now() calls of lines 21 and 22.                  *)

GetRemainingMillisToTokenEpxiry(ar, dateNow1, dateNow2) ==
    LET tokenExpiresAt == (ar.expiresIn * 1000) + dateNow1
    IN  ((tokenExpiresAt - dateNow2) \div 3) * 2

\* clock readings (Date.now(), milliseconds) the expiry function is evaluated at
ClockReadings == {0, 1, 999, 1000, 2000, 59000, 60000, 61000, 90000}

\* One evaluation in the session: both Date.now() calls read the same
\* millisecond, and the value is the one every clock reading gives.
RemainingNow(ar) ==
    CHOOSE v \in {GetRemainingMillisToTokenEpxiry(ar, n, n) : n \in ClockReadings} :
        \A n \in ClockReadings : GetRemainingMillisToTokenEpxiry(ar, n, n) = v

\* seeded fault: the comparison of line 158 the wrong way round
MissingOrExpired_Flipped(ar) ==
    IF ar = Null THEN TRUE ELSE RemainingNow(ar) > 0

\* ensureLoggedIn's test: latestAuthResult && remaining > 0
MissingOrExpired(ar) ==
    IF ar = Null THEN TRUE ELSE ~(RemainingNow(ar) > 0)

StillValid(ar) == ~MissingOrExpired(ar)

----------------------------------------------------------------------------
(* Retry policy of renewAuth's catch handler.                              *)

\* seeded fault: one retry too many (retries <= 4)
ShouldRetry_OffByOne(retries, error) ==
    retries <= MaxRetries /\ error.authResultError = "undefined"

\* seeded fault: one retry too few (retries < 3)
ShouldRetry_OneFewer(retries, error) ==
    retries < MaxRetries - 1 /\ error.authResultError = "undefined"

ShouldRetry(retries, error) ==
    retries < MaxRetries /\ error.authResultError = "undefined"

\* the err object webAuth.renewAuth passes to its callback
ProviderError(attempt) ==
    [kind |-> "err", attempt |-> attempt, authResultError |-> "undefined"]

\* { error: 'no_token_available', ..., authResultError: authResult.error }
NoTokenAvailable(r, attempt) ==
    [kind |-> "no_token_available", attempt |-> attempt,
     authResultError |-> IF r.hasError THEN "defined" ELSE "undefined"]

\* errors that do not come from renewAuth
OtherError(kind) == [kind |-> kind, attempt |-> 0, authResultError |-> "undefined"]

NoError == [kind |-> "none", attempt |-> 0, authResultError |-> "undefined"]

\* authResult && authResult.accessToken && authResult.idToken
HasTokens(r) == r # Null /\ r.accessToken /\ r.idToken

\* what webAuth.renewAuth may pass as authResult when err is falsy
AuthResults ==
    [accessToken : {TRUE}, idToken : {TRUE}, hasError : {FALSE},
     expiresIn : ExpiresInValues]
    \cup [accessToken : BOOLEAN, idToken : BOOLEAN, hasError : BOOLEAN,
          expiresIn : {0}]

----------------------------------------------------------------------------
(* Strings are sequences of characters.  encodeURIComponent keeps the      *)
(* unreserved characters and percent-encodes the others (UTF-8, here for   *)
(* the ASCII characters the configuration uses).                           *)

Unreserved ==
    {"a", "b", "c", "d", "h", "p", "t", "x", "0", "1", "-", "_", ".", "!", "~",
     "*", "'", "(", ")"}

PercentEncoded(ch) ==
    CASE ch = ":" -> <<"%", "3", "A">>
      [] ch = "/" -> <<"%", "2", "F">>
      [] ch = "?" -> <<"%", "3", "F">>
      [] ch = "=" -> <<"%", "3", "D">>
      [] ch = "&" -> <<"%", "2", "6">>
      [] ch = " " -> <<"%", "2", "0">>
      [] ch = "%" -> <<"%", "2", "5">>
      [] ch = "#" -> <<"%", "2", "3">>

RECURSIVE EncodeURIComponent(_)
EncodeURIComponent(str) ==
    IF str = <<>> THEN <<>>
    ELSE (IF Head(str) \in Unreserved THEN <<Head(str)>> ELSE PercentEncoded(Head(str)))
         \o EncodeURIComponent(Tail(str))

\* this.config.domain, this.config.clientId, this.config.logoutRedirectUri
ConfigDomain == <<"a", ".", "b">>

ConfigClientId == <<"c", "1">>

ConfigLogoutRedirectUri ==
    <<"h", "t", "t", "p", ":", "/", "/", "x", "/", "?", "a", "=", "b", "&", "c">>

\* seeded fault: the redirect URI is not URL-encoded
LogoutUrl_Unencoded ==
    <<"h", "t", "t", "p", "s", ":", "/", "/">> \o ConfigDomain
    \o <<"/", "v", "2", "/", "l", "o", "g", "o", "u", "t", "?">>
    \o <<"r", "e", "t", "u", "r", "n", "T", "o", "=">> \o ConfigLogoutRedirectUri
    \o <<"&", "c", "l", "i", "e", "n", "t", "_", "i", "d", "=">> \o ConfigClientId

\* `https://${domain}/v2/logout?returnTo=${redirectUri}&client_id=${clientId}`
LogoutUrl ==
    LET redirectUri == EncodeURIComponent(ConfigLogoutRedirectUri)
    IN  <<"h", "t", "t", "p", "s", ":", "/", "/">> \o ConfigDomain
        \o <<"/", "v", "2", "/", "l", "o", "g", "o", "u", "t", "?">>
        \o <<"r", "e", "t", "u", "r", "n", "T", "o", "=">> \o redirectUri
        \o <<"&", "c", "l", "i", "e", "n", "t", "_", "i", "d", "=">> \o ConfigClientId

----------------------------------------------------------------------------
(* State after construction.                                               *)

CallIds == 1..MaxCalls

\* a slot with no ensureLoggedIn invocation in progress
IdleCall ==
    [pc |-> "idle", enableLockWidget |-> TRUE, retries |-> 0, inner |-> FALSE,
     delay |-> 0, lockCreated |-> FALSE]

Range(seq) == {seq[i] : i \in DOMAIN seq}

\* The task that ran last: the operation, the slot of the ensureLoggedIn
\* invocation it belongs to, the external effects in the order they were made,
\* the number of pending timers its clearTimeout(this.tokenRefreshHandle)
\* cancelled, the URL its windowInteraction.updateWindow(url) set
\* window.location to, how the task ended (what the operation returned, or how
\* the promise of ensureLoggedIn settled) and the error of a failure.
Task(op, c, effects, outcome, error) ==
    [op |-> op, call |-> c, effects |-> effects,
     cancelled |-> IF "clearTimeout" \in Range(effects)
                   THEN Cardinality({t \in timers : t.id = tokenRefreshHandle})
                   ELSE 0,
     location |-> IF "updateWindow" \in Range(effects) THEN LogoutUrl ELSE <<>>,
     outcome |-> outcome, error |-> error]

\* no evaluation of the expiry function is being observed
NoProbe == [expiresIn |-> 0, issuedAt |-> 0, now |-> 0, remaining |-> 0]

Init ==
    /\ hooks \in HookConfigs
    /\ authResult = Null
    /\ tokenRefreshHandle = NoHandle
    /\ timers = {}
    /\ calls = [c \in CallIds |-> IdleCall]
    /\ last = [op |-> "constructor", call |-> 0, effects |-> <<>>, cancelled |-> 0,
               location |-> <<>>, outcome |-> "none", error |-> NoError]
    /\ probe = NoProbe

----------------------------------------------------------------------------
(* Timers of windowInteraction: each pending timer has a handle and the    *)
(* delay that is left until it may fire.  A handle is a positive number    *)
(* that no pending timer and no remembered handle carries.                 *)

Max(a, b) == IF a >= b THEN a ELSE b

\* seeded fault: windowInteraction.setTimeout does not return the handle
FreshHandle_NotReturned == NoHandle

FreshHandle ==
    CHOOSE h \in 1..(Cardinality(timers) + 2) :
        h # tokenRefreshHandle /\ \A t \in timers : t.id # h

\* windowInteraction.clearTimeout(handle)
ClearTimeout(handle) == {t \in timers : t.id # handle}

----------------------------------------------------------------------------
(* tokenRefreshed(authResult): lines 94-108.                               *)

\* seeded fault: the timer that is replaced is not cancelled
TimersAfterTokenRefreshed_NoClear(r) ==
    timers \cup {[id |-> FreshHandle, delay |-> Max(0, RemainingNow(r))]}

TimersAfterTokenRefreshed(r) ==
    (IF tokenRefreshHandle # NoHandle THEN ClearTimeout(tokenRefreshHandle) ELSE timers)
    \cup {[id |-> FreshHandle, delay |-> Max(0, RemainingNow(r))]}

TokenRefreshedEffects ==
    (IF tokenRefreshHandle # NoHandle THEN <<"clearTimeout">> ELSE <<>>)
    \o <<"setTimeout">>
    \o (IF "tokenRefreshed" \in hooks THEN <<"hooks.tokenRefreshed">> ELSE <<>>)

(* removeLogin(): lines 114-124.                                           *)

\* seeded fault: the token is not cleared
AuthResultAfterRemoveLogin_Kept == authResult

AuthResultAfterRemoveLogin ==
    IF tokenRefreshHandle # NoHandle THEN Null ELSE authResult

TimersAfterRemoveLogin ==
    IF tokenRefreshHandle # NoHandle THEN ClearTimeout(tokenRefreshHandle) ELSE timers

\* seeded fault: the hook is only invoked when there was a handle to clear
RemoveLoginEffects_HookInsideIf ==
    IF tokenRefreshHandle # NoHandle
    THEN <<"clearTimeout">>
         \o (IF "removeLogin" \in hooks THEN <<"hooks.removeLogin">> ELSE <<>>)
    ELSE <<>>

RemoveLoginEffects ==
    (IF tokenRefreshHandle # NoHandle THEN <<"clearTimeout">> ELSE <<>>)
    \o (IF "removeLogin" \in hooks THEN <<"hooks.removeLogin">> ELSE <<>>)

RemoveLoginReturns ==
    IF "removeLogin" \in hooks THEN "hookResult" ELSE "resolvedPromise"

(* logout(): lines 130-143.                                                *)

AuthResultAfterLogout ==
    IF tokenRefreshHandle # NoHandle THEN Null ELSE authResult

TimersAfterLogout ==
    IF tokenRefreshHandle # NoHandle THEN ClearTimeout(tokenRefreshHandle) ELSE timers

LogoutEffects ==
    (IF tokenRefreshHandle # NoHandle THEN <<"clearTimeout">> ELSE <<>>)
    \o (IF "logout" \in hooks THEN <<"hooks.logout">> ELSE <<>>)
    \o <<"updateWindow">>

----------------------------------------------------------------------------
(* Public operations.                                                      *)

\* a slot is free for one more invocation: the lowest idle one
HasFreeSlot == \E c \in CallIds : calls[c].pc = "idle"

FreeSlot ==
    CHOOSE c \in CallIds :
        calls[c].pc = "idle" /\ \A d \in CallIds : d < c => calls[d].pc # "idle"

\* seeded fault: an invocation joins a silent renew that is already in flight
EnsureLoggedInCall_Deduplicated(enableLockWidget) ==
    IF StillValid(authResult) \/ \E c \in CallIds : calls[c].pc = "renewing"
    THEN IdleCall
    ELSE [IdleCall EXCEPT !.pc = "renewing", !.enableLockWidget = enableLockWidget]

\* the invocation right after ensureLoggedIn(configuration) returned: settled
\* at once (line 159), or waiting for the callback of webAuth.renewAuth
EnsureLoggedInCall(enableLockWidget) ==
    IF StillValid(authResult)
    THEN IdleCall
    ELSE [IdleCall EXCEPT !.pc = "renewing", !.enableLockWidget = enableLockWidget]

EnsureLoggedInEffects ==
    IF StillValid(authResult) THEN <<>> ELSE <<"webAuth.renewAuth">>

EnsureLoggedInReturns ==
    IF StillValid(authResult) THEN "resolved" ELSE "pending"

\* ensureLoggedIn(configuration) called by the application
EnsureLoggedIn(enableLockWidget) ==
    /\ HasFreeSlot
    /\ calls' = [calls EXCEPT ![FreeSlot] = EnsureLoggedInCall(enableLockWidget)]
    /\ last' = Task("ensureLoggedIn", FreeSlot, EnsureLoggedInEffects,
                    EnsureLoggedInReturns, NoError)
    /\ UNCHANGED <<hooks, authResult, tokenRefreshHandle, timers, probe>>

\* the renewal timer fires: () => this.ensureLoggedIn({ enableLockWidget: true })
RenewalTimerFires(t) ==
    /\ t \in timers
    /\ t.delay = 0
    /\ HasFreeSlot
    /\ timers' = timers \ {t}
    /\ calls' = [calls EXCEPT ![FreeSlot] = EnsureLoggedInCall(TRUE)]
    /\ last' = Task("renewalTimer", FreeSlot, EnsureLoggedInEffects,
                    EnsureLoggedInReturns, NoError)
    /\ UNCHANGED <<hooks, authResult, tokenRefreshHandle, probe>>

\* removeLogin() called by the application
RemoveLogin ==
    /\ authResult' = AuthResultAfterRemoveLogin
    /\ timers' = TimersAfterRemoveLogin
    /\ last' = Task("removeLogin", 0, RemoveLoginEffects, RemoveLoginReturns, NoError)
    /\ UNCHANGED <<hooks, tokenRefreshHandle, calls, probe>>

\* logout() called by the application
Logout ==
    /\ authResult' = AuthResultAfterLogout
    /\ timers' = TimersAfterLogout
    /\ last' = Task("logout", 0, LogoutEffects, "undefined", NoError)
    /\ UNCHANGED <<hooks, tokenRefreshHandle, calls, probe>>

\* something waits for the clock: a renewal timer or a retry delay
Waiting ==
    \/ \E t \in timers : t.delay > 0
    \/ \E c \in CallIds : calls[c].delay > 0

\* TickMillis milliseconds pass: every pending delay shrinks by as much
Tick ==
    /\ Waiting
    /\ timers' = {[t EXCEPT !.delay = Max(0, @ - TickMillis)] : t \in timers}
    /\ calls' = [c \in CallIds |->
                   [calls[c] EXCEPT !.delay = Max(0, @ - TickMillis)]]
    /\ last' = Task("tick", 0, <<>>, "none", NoError)
    /\ UNCHANGED <<hooks, authResult, tokenRefreshHandle, probe>>

----------------------------------------------------------------------------
(* renewAuth(retries): lines 221-260, and the reactions of ensureLoggedIn  *)
(* (lines 176-213) that run in the same task.                              *)

\* the widget is on screen and waits for the user (lines 184-210)
AtWidget(call) ==
    [call EXCEPT !.pc = "widget", !.inner = FALSE, !.retries = 0, !.lockCreated = TRUE]

\* The promise of renewAuth never settles: an exception thrown inside the
\* provider callback, or a tokenRefreshed hook that rejects.  After the widget's
\* 'authenticated' event the widget stays on screen with its listeners; before,
\* nothing is left that could settle the promise of ensureLoggedIn.
NeverSettles(call) == IF call.inner THEN AtWidget(call) ELSE IdleCall

NeverSettlesOutcome(call) == IF call.inner THEN "none" ELSE "neverSettles"

\* renewAuth resolved: lock.getUserInfo (line 189) or getDetailedProfile (line 212)
Renewed(call) ==
    IF call.inner
    THEN [call EXCEPT !.pc = "userInfo", !.retries = 0]
    ELSE [call EXCEPT !.pc = "profile", !.retries = 0]

RenewedEffects(call) ==
    IF call.inner THEN <<"lock.getUserInfo">> ELSE <<"auth0Manager.getUser">>

\* the catch handler of renewAuth retries (lines 253-257)
Retries(call, error) == ShouldRetry(call.retries, error)

\* the error is thrown to ensureLoggedIn's catch handler (lines 177-211)
ReachesCatch(call, error) == ~Retries(call, error) /\ ~call.inner

\* seeded fault: the widget is shown whatever enableLockWidget says
AfterRenewError_IgnoresFlag(call, error) ==
    IF Retries(call, error)
    THEN [call EXCEPT !.pc = "retryWait", !.delay = RetryDelayMillis]
    ELSE AtWidget(call)

\* the invocation after the provider call was rejected with `error`
AfterRenewError(call, error) ==
    IF Retries(call, error)
    THEN [call EXCEPT !.pc = "retryWait", !.delay = RetryDelayMillis]
    ELSE IF call.inner THEN AtWidget(call)
    ELSE IF ~call.enableLockWidget THEN IdleCall
    ELSE AtWidget(call)

RenewErrorEffects(call, error) ==
    IF Retries(call, error) THEN <<"setTimeout(retry)">>
    ELSE IF call.inner THEN <<>>
    ELSE RemoveLoginEffects
         \o (IF call.enableLockWidget THEN <<"new Auth0Lock", "lock.show">> ELSE <<>>)

RenewErrorOutcome(call, error) ==
    IF ReachesCatch(call, error) /\ ~call.enableLockWidget THEN "rejected" ELSE "none"

\* seeded fault: renewAuth resolves without waiting for the tokenRefreshed hook
AfterTokenRefreshed_NotAwaited(call) == Renewed(call)

\* the invocation after tokenRefreshed(authResult) was called (lines 241-247)
AfterTokenRefreshed(call) ==
    IF "tokenRefreshed" \in hooks THEN [call EXCEPT !.pc = "tokenHook"]
    ELSE Renewed(call)

\* what the callback of webAuth.renewAuth rejects with, if it rejects
RenewError(call, err, r) ==
    IF err THEN ProviderError(call.retries) ELSE NoTokenAvailable(r, call.retries)

\* seeded fault: the ID token is not tested
Installs_AccessTokenOnly(err, r) == ~err /\ r # Null /\ r.accessToken

\* the callback of webAuth.renewAuth installs the token
Installs(err, r) == ~err /\ HasTokens(r)

\* authResult.error is read on a null authResult (line 249)
Throws(err, r) == ~err /\ r = Null

\* the provider calls back the callback of webAuth.renewAuth(renewOptions, cb)
WebAuthRenewCallback(c, err, r) ==
    LET call == calls[c]
        error == RenewError(call, err, r)
    IN  /\ call.pc = "renewing"
        /\ IF Installs(err, r)
           THEN /\ authResult' = r
                /\ tokenRefreshHandle' = FreshHandle
                /\ timers' = TimersAfterTokenRefreshed(r)
                /\ calls' = [calls EXCEPT ![c] = AfterTokenRefreshed(call)]
                /\ last' = Task("renewCallback", c,
                                TokenRefreshedEffects
                                \o (IF "tokenRefreshed" \in hooks THEN <<>>
                                    ELSE RenewedEffects(call)),
                                "installed", NoError)
           ELSE IF Throws(err, r)
           THEN /\ calls' = [calls EXCEPT ![c] = NeverSettles(call)]
                /\ last' = Task("renewCallback", c, <<>>, NeverSettlesOutcome(call),
                                NoError)
                /\ UNCHANGED <<authResult, tokenRefreshHandle, timers>>
           ELSE /\ calls' = [calls EXCEPT ![c] = AfterRenewError(call, error)]
                /\ authResult' = IF ReachesCatch(call, error)
                                 THEN AuthResultAfterRemoveLogin ELSE authResult
                /\ timers' = IF ReachesCatch(call, error)
                             THEN TimersAfterRemoveLogin ELSE timers
                /\ last' = Task("renewCallback", c, RenewErrorEffects(call, error),
                                RenewErrorOutcome(call, error), error)
                /\ UNCHANGED tokenRefreshHandle
        /\ UNCHANGED <<hooks, probe>>

\* the retry delay is over: this.renewAuth(retries + 1) (lines 255-256)
RetryTimerFires(c) ==
    /\ calls[c].pc = "retryWait"
    /\ calls[c].delay = 0
    /\ calls' = [calls EXCEPT ![c].pc = "renewing", ![c].retries = @ + 1]
    /\ last' = Task("retryTimer", c, <<"webAuth.renewAuth">>, "none", NoError)
    /\ UNCHANGED <<hooks, authResult, tokenRefreshHandle, timers, probe>>

\* the promise returned by the tokenRefreshed hook settles (lines 241-247)
TokenRefreshedHookSettles(c, fulfilled) ==
    /\ calls[c].pc = "tokenHook"
    /\ calls' = [calls EXCEPT ![c] = IF fulfilled THEN Renewed(calls[c])
                                     ELSE NeverSettles(calls[c])]
    /\ last' = Task("tokenRefreshedHookSettles", c,
                    IF fulfilled THEN RenewedEffects(calls[c]) ELSE <<>>,
                    IF fulfilled THEN "none" ELSE NeverSettlesOutcome(calls[c]),
                    NoError)
    /\ UNCHANGED <<hooks, authResult, tokenRefreshHandle, timers, probe>>

----------------------------------------------------------------------------
(* The Auth0Lock widget: lines 184-210.  Its events are delivered while it *)
(* waits for the user.                                                     *)

\* lock.on('authenticated', ...): this.renewAuth()
LockAuthenticated(c) ==
    /\ calls[c].pc = "widget"
    /\ calls' = [calls EXCEPT ![c].pc = "renewing", ![c].inner = TRUE,
                              ![c].retries = 0]
    /\ last' = Task("lockAuthenticated", c, <<"webAuth.renewAuth">>, "none", NoError)
    /\ UNCHANGED <<hooks, authResult, tokenRefreshHandle, timers, probe>>

\* lock.on('authorization_error', ...): reject(error)
LockAuthorizationError(c) ==
    /\ calls[c].pc = "widget"
    /\ calls' = [calls EXCEPT ![c] = IdleCall]
    /\ last' = Task("lockAuthorizationError", c, <<>>, "rejected",
                    OtherError("authorization_error"))
    /\ UNCHANGED <<hooks, authResult, tokenRefreshHandle, timers, probe>>

\* the callback of lock.getUserInfo (lines 189-200)
GetUserInfoCallback(c, error) ==
    /\ calls[c].pc = "userInfo"
    /\ calls' = [calls EXCEPT ![c] =
                   IF error THEN IdleCall
                   ELSE [@ EXCEPT !.pc = "profile", !.inner = FALSE]]
    /\ last' = Task("getUserInfoCallback", c,
                    <<"lock.hide">>
                    \o (IF error THEN <<>> ELSE <<"auth0Manager.getUser">>),
                    IF error THEN "rejected" ELSE "none",
                    IF error THEN OtherError("getUserInfo") ELSE NoError)
    /\ UNCHANGED <<hooks, authResult, tokenRefreshHandle, timers, probe>>

----------------------------------------------------------------------------
(* getDetailedProfile and profileRefreshed: lines 53-67, 82-87, 212-213.   *)

\* the callback of auth0Manager.getUser
GetUserCallback(c, error) ==
    /\ calls[c].pc = "profile"
    /\ calls' = [calls EXCEPT ![c] =
                   IF ~error /\ "profileRefreshed" \in hooks
                   THEN [@ EXCEPT !.pc = "profileHook"]
                   ELSE IdleCall]
    /\ last' = Task("getUserCallback", c,
                    IF ~error /\ "profileRefreshed" \in hooks
                    THEN <<"hooks.profileRefreshed">> ELSE <<>>,
                    IF error THEN "rejected"
                    ELSE IF "profileRefreshed" \in hooks THEN "none" ELSE "resolved",
                    IF error THEN OtherError("getUser") ELSE NoError)
    /\ UNCHANGED <<hooks, authResult, tokenRefreshHandle, timers, probe>>

\* the promise returned by the profileRefreshed hook settles
ProfileRefreshedHookSettles(c, fulfilled) ==
    /\ calls[c].pc = "profileHook"
    /\ calls' = [calls EXCEPT ![c] = IdleCall]
    /\ last' = Task("profileRefreshedHookSettles", c, <<>>,
                    IF fulfilled THEN "resolved" ELSE "rejected",
                    IF fulfilled THEN NoError ELSE OtherError("profileRefreshedHook"))
    /\ UNCHANGED <<hooks, authResult, tokenRefreshHandle, timers, probe>>

----------------------------------------------------------------------------
(* The session: every task the event loop may run.                         *)

Next ==
    \/ \E w \in BOOLEAN : EnsureLoggedIn(w)
    \/ \E t \in timers : RenewalTimerFires(t)
    \/ RemoveLogin
    \/ Logout
    \/ Tick
    \/ \E c \in CallIds, r \in AuthResults \cup {Null} : WebAuthRenewCallback(c, FALSE, r)
    \/ \E c \in CallIds : WebAuthRenewCallback(c, TRUE, Null)
    \/ \E c \in CallIds : RetryTimerFires(c)
    \/ \E c \in CallIds, f \in BOOLEAN : TokenRefreshedHookSettles(c, f)
    \/ \E c \in CallIds : LockAuthenticated(c)
    \/ \E c \in CallIds : LockAuthorizationError(c)
    \/ \E c \in CallIds, e \in BOOLEAN : GetUserInfoCallback(c, e)
    \/ \E c \in CallIds, e \in BOOLEAN : GetUserCallback(c, e)
    \/ \E c \in CallIds, f \in BOOLEAN : ProfileRefreshedHookSettles(c, f)

Spec == Init /\ [][Next]_vars

\* getLatestAuthResult(): lines 73-75
GetLatestAuthResult == authResult

----------------------------------------------------------------------------
(* The expiry function on its own: a token of lifetime probe.expiresIn is  *)
(* stored at probe.issuedAt, the clock advances, and the function is       *)
(* evaluated at every clock reading the way ensureLoggedIn evaluates it    *)
(* (line 158).  The second Date.now() may read a later millisecond.        *)

\* lifetimes (seconds) and storing times (milliseconds) of the observed token
ProbeLifetimes == {0, 1, MaxExpiresIn, 90}

ProbeIssueTimes == {0, 5000}

\* how far the clock may advance in one step, and how long it is observed
ProbeSteps == {1000, 59000}

MaxProbeElapsed == 62

\* the second Date.now() reads at most this many milliseconds more
MaxLag == 1

Evaluated(p, dateNow, lag) ==
    [p EXCEPT !.now = dateNow,
              !.remaining = GetRemainingMillisToTokenEpxiry(p, dateNow, dateNow + lag)]

\* a token of lifetime l is stored at time t
ProbeStore(l, t) ==
    /\ probe = NoProbe
    /\ probe' = Evaluated([NoProbe EXCEPT !.expiresIn = l, !.issuedAt = t], t, 0)
    /\ UNCHANGED sessionVars

\* d milliseconds later the function is evaluated again
ProbeAdvance(d, lag) ==
    /\ probe # NoProbe
    /\ probe.now + d - probe.issuedAt <= MaxProbeElapsed * 1000
    /\ probe' = Evaluated(probe, probe.now + d, lag)
    /\ UNCHANGED sessionVars

NextExpiry ==
    \/ \E l \in ProbeLifetimes, t \in ProbeIssueTimes : ProbeStore(l, t)
    \/ \E d \in ProbeSteps, lag \in 0..MaxLag : ProbeAdvance(d, lag)

SpecExpiry == Init /\ [][NextExpiry]_vars

----------------------------------------------------------------------------
(* Properties.                                                             *)

Count(seq, x) == Cardinality({i \in DOMAIN seq : seq[i] = x})

\* position of the first x in seq, 0 when there is none
IndexOf(seq, x) ==
    IF x \in Range(seq) THEN CHOOSE i \in DOMAIN seq :
                                 seq[i] = x /\ \A j \in 1..(i - 1) : seq[j] # x
    ELSE 0

\* the session is logged out: no token and no pending renewal timer
LoggedOut == authResult = Null /\ timers = {}

\* C1: when the renewal timer of an installed token fires, the re-invoked
\* ensureLoggedIn({enableLockWidget: true}) treats the token as expired and
\* invokes the provider's silent renew (which is what keeps the session renewed
\* again and again).
C1_TimerFiringRenews ==
    (last.op = "renewalTimer" /\ authResult # Null)
        => last.effects = <<"webAuth.renewAuth">>

\* C2: the remaining validity of a token of lifetime L seconds stored at t0 is
\* positive while now - t0 < (2/3)*L*1000 and non-positive from then on.
C2_ExpiresAfterTwoThirds ==
    probe # NoProbe =>
        LET elapsed == probe.now - probe.issuedAt
        IN  /\ 3 * elapsed < 2 * probe.expiresIn * 1000 => probe.remaining > 0
            /\ 3 * elapsed >= 2 * probe.expiresIn * 1000 => probe.remaining <= 0

\* C3: ensureLoggedIn called (by the application or by the renewal timer) while
\* the stored token has positive remaining validity resolves at once and changes
\* nothing: no silent renew, no widget, no profile fetch, no hook, and the stored
\* token, the timer handle, the pending timers and the other invocations are as
\* they were, and the client is not navigated.
C3_ValidTokenNoOp ==
    [][(/\ authResult # Null
        /\ RemainingNow(authResult) > 0
        /\ last'.op \in {"ensureLoggedIn", "renewalTimer"})
       => /\ last'.outcome = "resolved"
          /\ last'.effects = <<>>
          /\ authResult' = authResult
          /\ tokenRefreshHandle' = tokenRefreshHandle
          /\ timers' \subseteq timers
          /\ (last'.op = "ensureLoggedIn" => timers' = timers)
          /\ calls' = calls
          /\ last'.location = <<>>]_vars

C3_Witness ==
    /\ last.op = "ensureLoggedIn"
    /\ last.outcome = "resolved"
    /\ authResult # Null
    /\ timers # {}

\* C4: a failed silent-renew attempt number n is followed by another attempt
\* (after the retry delay) exactly when its error is transient and n is 0..3;
\* after attempt 4, or after a permanent error (no_token_available) at any
\* attempt, no further attempt is made.
C4_RetryExactlyTransientBelowFour ==
    (last.op = "renewCallback" /\ last.error # NoError)
        => ("setTimeout(retry)" \in Range(last.effects)
              <=> (last.error.kind = "err" /\ last.error.attempt \in 0..3))

\* C5 as stated: the 4th consecutive transient failure of an invocation with
\* enableLockWidget = false rejects ensureLoggedIn; no 5th attempt is made.
C5_RejectsAfterFourthFailure ==
    [][\A c \in CallIds :
         (/\ calls[c].pc = "renewing"
          /\ ~calls[c].enableLockWidget
          /\ calls[c].retries = 3
          /\ last'.op = "renewCallback"
          /\ last'.call = c
          /\ last'.error.kind = "err")
         => /\ last'.outcome = "rejected"
            /\ calls'[c].pc = "idle"]_vars

\* C5 amended: the 5th consecutive transient failure (attempt number 4) of an
\* invocation with enableLockWidget = false rejects ensureLoggedIn with the error
\* of that failure; no 6th attempt is made, the 4 failures before it are retried,
\* and the widget is never created.
C5_RejectsAfterFifthFailure ==
    /\ [](\A c \in CallIds :
            /\ calls[c].retries <= 4
            /\ ~calls[c].enableLockWidget
                 => ~calls[c].lockCreated /\ calls[c].pc \notin {"widget", "userInfo"})
    /\ [][\A c \in CallIds :
            (/\ calls[c].pc = "renewing"
             /\ ~calls[c].enableLockWidget
             /\ last'.op = "renewCallback"
             /\ last'.call = c
             /\ last'.error.kind = "err")
            => /\ last'.error.attempt = calls[c].retries
               /\ "new Auth0Lock" \notin Range(last'.effects)
               /\ "lock.show" \notin Range(last'.effects)
               /\ IF calls[c].retries = 4
                  THEN /\ last'.outcome = "rejected"
                       /\ calls'[c].pc = "idle"
                       /\ "setTimeout(retry)" \notin Range(last'.effects)
                  ELSE /\ last'.outcome = "none"
                       /\ calls'[c].pc = "retryWait"
                       /\ calls'[c].retries = calls[c].retries]_vars

C5_Witness ==
    /\ last.op = "renewCallback"
    /\ last.outcome = "rejected"
    /\ last.error.kind = "err"
    /\ last.error.attempt = 4

\* C6: a silent-renew response without error that lacks the access token or the
\* ID token (the no_token_available rejection) is never followed by another
\* attempt, whether or not the response carries an error field: the invocation
\* goes to the widget when enableLockWidget is true and rejects when it is false.
C6_NoTokenNeverRetried ==
    (last.op = "renewCallback" /\ last.error.kind = "no_token_available")
        => /\ "setTimeout(retry)" \notin Range(last.effects)
           /\ calls[last.call].pc # "retryWait"

\* C7: at most one renewal timer is pending, and it is the one
\* this.tokenRefreshHandle names; a successful renewal leaves exactly one
\* pending and cancels the handle it replaces before it creates the new timer.
C7_AtMostOneRenewalTimer ==
    /\ Cardinality(timers) <= 1
    /\ \A t \in timers : t.id = tokenRefreshHandle
    /\ (last.op = "renewCallback" /\ last.outcome = "installed")
         => /\ Cardinality(timers) = 1
            /\ Count(last.effects, "setTimeout") = 1
            /\ "clearTimeout" \in Range(last.effects)
                 => IndexOf(last.effects, "clearTimeout")
                      < IndexOf(last.effects, "setTimeout")

\* a renewal replaced a timer that was still pending
C7_Witness ==
    /\ last.op = "renewCallback"
    /\ last.outcome = "installed"
    /\ last.cancelled = 1
    /\ \E c \in CallIds : calls[c].pc \in {"renewing", "retryWait"}

\* C8: logout or removeLogin while a silent renew is in flight makes the later
\* successful completion of that renewal a no-op: no token is installed and no
\* renewal timer is scheduled (here: the completion is the very next task).
C8_StaleRenewalDiscarded ==
    [][\A c \in CallIds :
         (/\ last.op \in {"logout", "removeLogin"}
          /\ calls[c].pc = "renewing"
          /\ last'.op = "renewCallback"
          /\ last'.call = c)
         => authResult' = Null /\ timers' = {}]_vars

\* the logout URL of the configuration, written out
ExpectedLogoutUrl ==
    <<"h", "t", "t", "p", "s", ":", "/", "/", "a", ".", "b", "/", "v", "2", "/",
    "l", "o", "g", "o", "u", "t", "?", "r", "e", "t", "u", "r", "n", "T", "o", "=",
    "h", "t", "t", "p", "%", "3", "A", "%", "2", "F", "%", "2", "F", "x", "%", "2",
    "F", "%", "3", "F", "a", "%", "3", "D", "b", "%", "2", "6", "c", "&", "c", "l",
    "i", "e", "n", "t", "_", "i", "d", "=", "c", "1">>

\* C9: after logout() no renewal timer is pending and no token is stored, the
\* logout hook was invoked once if configured and not at all otherwise, and the
\* client was navigated once, after the hook, to
\* https://{domain}/v2/logout?returnTo={urlEncode(logoutRedirectUri)}&client_id={clientId}
\* (here https://a.b/v2/logout?returnTo=http%3A%2F%2Fx%2F%3Fa%3Db%26c&client_id=c1).
C9_LogoutClearsAndNavigates ==
    last.op = "logout"
        => /\ timers = {}
           /\ GetLatestAuthResult = Null
           /\ Count(last.effects, "hooks.logout")
                = (IF "logout" \in hooks THEN 1 ELSE 0)
           /\ Count(last.effects, "updateWindow") = 1
           /\ IndexOf(last.effects, "hooks.logout")
                < IndexOf(last.effects, "updateWindow")
           /\ last.effects[Len(last.effects)] = "updateWindow"
           /\ last.location = ExpectedLogoutUrl

\* logout() cancelled a pending renewal timer, with the hook configured
C9_Witness ==
    /\ last.op = "logout"
    /\ last.cancelled = 1
    /\ "logout" \in hooks

\* C10: after removeLogin() (called by the application, or by ensureLoggedIn when
\* the silent renewal failed for good) no renewal timer is pending and no token
\* is stored; the remove-login hook was invoked once, after the clearing, if
\* configured, and its result is returned, otherwise an already-resolved promise
\* is returned; with no renewal handle ever created, token and timers are left
\* as they were.
C10_RemoveLoginClears ==
    /\ [](last.op = "removeLogin"
            => /\ LoggedOut
               /\ Count(last.effects, "hooks.removeLogin")
                    = (IF "removeLogin" \in hooks THEN 1 ELSE 0)
               /\ last.outcome
                    = (IF "removeLogin" \in hooks THEN "hookResult" ELSE "resolvedPromise")
               /\ "clearTimeout" \in Range(last.effects)
                    => IndexOf(last.effects, "clearTimeout") = 1
               /\ "clearTimeout" \in Range(last.effects) <=> tokenRefreshHandle # NoHandle)
    /\ []((last.op = "renewCallback"
             /\ (last.outcome = "rejected" \/ "lock.show" \in Range(last.effects)))
            => /\ LoggedOut
               /\ Count(last.effects, "hooks.removeLogin")
                    = (IF "removeLogin" \in hooks THEN 1 ELSE 0))
    /\ [][(last'.op = "removeLogin" /\ tokenRefreshHandle = NoHandle)
            => authResult' = authResult /\ timers' = timers]_vars

\* removeLogin() cancelled a pending renewal timer and cleared the token
C10_Witness ==
    /\ last.op = "removeLogin"
    /\ last.cancelled = 1
    /\ LoggedOut

\* no ensureLoggedIn invocation is in progress
NoCallInProgress == \A c \in CallIds : calls[c].pc = "idle"

\* the last task was the failure of a silent-renew attempt that is not retried
TerminalRenewError(task) ==
    /\ task.op = "renewCallback"
    /\ task.error # NoError
    /\ "setTimeout(retry)" \notin Range(task.effects)

\* C11: once an ensureLoggedIn invocation has reached the interactive login
\* widget, each of these makes its promise reject: the widget's
\* authorization_error event, an error of lock.getUserInfo, and the terminal
\* failure of the silent renew started by the widget's authenticated event (so
\* the promise does not stay pending when the events are delivered).
C11_WidgetPathErrorsReject ==
    [][\A c \in CallIds :
         (/\ calls[c].lockCreated
          /\ last'.call = c
          /\ \/ last'.op = "lockAuthorizationError"
             \/ last'.op = "getUserInfoCallback" /\ last'.error # NoError
             \/ TerminalRenewError(last'))
         => /\ last'.outcome = "rejected"
            /\ calls'[c].pc = "idle"]_vars

\* C12: whenever the promise of ensureLoggedIn rejects and no other invocation
\* is in progress, the session is logged out: no token is stored and no renewal
\* timer is pending.
C12_RejectionLeavesLoggedOut ==
    (last.outcome = "rejected" /\ NoCallInProgress) => LoggedOut

\* C13: when the silent renewal sequence of an invocation with
\* enableLockWidget = false ends in an error that is not retried, the promise
\* rejects with the error of that last attempt, the login state is cleared (no
\* token, no pending renewal timer), and neither the widget nor the profile
\* fetch nor the profileRefreshed hook is reached; such an invocation never has
\* a widget.
C13_WidgetDisabledRejects ==
    /\ [](\A c \in CallIds :
            ~calls[c].enableLockWidget
                => /\ ~calls[c].lockCreated
                   /\ ~calls[c].inner
                   /\ calls[c].pc \notin {"widget", "userInfo"})
    /\ [][\A c \in CallIds :
            (/\ calls[c].pc = "renewing"
             /\ ~calls[c].enableLockWidget
             /\ last'.call = c
             /\ TerminalRenewError(last'))
            => /\ last'.outcome = "rejected"
               /\ last'.error.kind \in {"err", "no_token_available"}
               /\ last'.error.attempt = calls[c].retries
               /\ authResult' = Null
               /\ timers' = {}
               /\ calls'[c].pc = "idle"
               /\ Range(last'.effects) \cap
                    {"new Auth0Lock", "lock.show", "lock.getUserInfo",
                     "auth0Manager.getUser", "hooks.profileRefreshed",
                     "webAuth.renewAuth"} = {}]_vars

\* a permanent error rejected an invocation with the widget disabled, and the
\* removeLogin it triggered cancelled a pending renewal timer
C13_Witness ==
    /\ last.op = "renewCallback"
    /\ last.outcome = "rejected"
    /\ last.error.kind = "no_token_available"
    /\ last.cancelled = 1
    /\ LoggedOut

\* the effects that are invocations of a configured lifecycle hook
HookEffects ==
    {"hooks.tokenRefreshed", "hooks.profileRefreshed", "hooks.removeLogin",
     "hooks.logout"}

\* C14: the step that follows a lifecycle hook is taken only after the promise
\* the hook returned has settled, that is in a later task: in the task that
\* invokes a hook nothing follows the invocation (no profile fetch, no widget,
\* no navigation) and the promise of ensureLoggedIn does not settle.
C14_HooksAwaited ==
    \A h \in HookEffects :
        h \in Range(last.effects)
            => /\ last.effects[Len(last.effects)] = h
               /\ last.outcome \notin {"resolved", "rejected"}

\* C15: within one invocation, transient failures of the attempts before a
\* successful one (attempt numbers 0..3, so up to 4 failures) do not surface:
\* each only schedules the next attempt (no removeLogin, no hook, no widget, no
\* rejection, token and renewal timer untouched), the retry starts the attempt
\* with the next number, and the successful attempt installs a token with its
\* renewal timer and goes on to the profile fetch without a widget.
C15_TransientFailuresAbsorbed ==
    /\ [](\A c \in CallIds :
            (calls[c].pc \in {"renewing", "retryWait"} /\ ~calls[c].inner)
                => ~calls[c].lockCreated /\ calls[c].retries \in 0..4)
    /\ [][\A c \in CallIds :
            (/\ calls[c].pc = "renewing"
             /\ ~calls[c].inner
             /\ last'.op = "renewCallback"
             /\ last'.call = c)
            => /\ (last'.error.kind = "err" /\ calls[c].retries < 4)
                    => /\ last'.effects = <<"setTimeout(retry)">>
                       /\ last'.outcome = "none"
                       /\ calls'[c].pc = "retryWait"
                       /\ calls'[c].retries = calls[c].retries
                       /\ authResult' = authResult
                       /\ timers' = timers
                       /\ tokenRefreshHandle' = tokenRefreshHandle
               /\ last'.outcome = "installed"
                    => /\ HasTokens(authResult')
                       /\ \E t \in timers' : t.id = tokenRefreshHandle'
                       /\ Range(last'.effects) \cap
                            {"hooks.removeLogin", "new Auth0Lock", "lock.show"} = {}
                       /\ calls'[c].pc \in {"tokenHook", "profile"}
                       /\ ~calls'[c].lockCreated]_vars
    /\ [][\A c \in CallIds :
            (calls[c].pc = "retryWait" /\ last'.op = "retryTimer" /\ last'.call = c)
            => /\ calls'[c].pc = "renewing"
               /\ calls'[c].retries = calls[c].retries + 1
               /\ last'.effects = <<"webAuth.renewAuth">>]_vars

\* attempt number 4 succeeded after four transient failures, no widget
C15_Witness ==
    /\ last.op = "renewCallback"
    /\ last.outcome = "installed"
    /\ last.call \in CallIds
    /\ calls[last.call].pc = "tokenHook"
    /\ calls[last.call].retries = 4
    /\ ~calls[last.call].lockCreated

\* how far an invocation is past the acquisition of a token: 1 waits for the
\* tokenRefreshed hook, 2 for lock.getUserInfo, 3 for the profile fetch, 4 for
\* the profileRefreshed hook; 0 has not acquired one
Rank(call) ==
    CASE call.pc = "tokenHook" -> 1
      [] call.pc = "userInfo" -> 2
      [] call.pc = "profile" -> 3
      [] call.pc = "profileHook" -> 4
      [] OTHER -> 0

\* C16: an invocation that acquires a token goes through: token stored and
\* renewal timer scheduled, tokenRefreshed hook, profile fetch, profileRefreshed
\* hook (once), promise resolved.  It is past the acquisition only after the
\* task that stored the token, and moves only forward from there; each event
\* belongs to its step, so the profile fetch never precedes the storing and the
\* promise never resolves before the profileRefreshed hook was invoked.
C16_AcquisitionOrder ==
    [][\A c \in CallIds :
         last'.call = c
         => /\ (Rank(calls'[c]) > 0 /\ Rank(calls[c]) = 0)
                 => last'.outcome = "installed"
            /\ (Rank(calls'[c]) > 0 /\ Rank(calls[c]) > 0)
                 => Rank(calls'[c]) > Rank(calls[c])
            /\ last'.outcome = "installed"
                 => /\ authResult' # Null
                    /\ \E t \in timers' : t.id = tokenRefreshHandle'
                    /\ Rank(calls[c]) = 0
                    /\ Rank(calls'[c]) > 0
                    /\ Count(last'.effects, "setTimeout") = 1
                    /\ Count(last'.effects, "hooks.tokenRefreshed")
                         = (IF "tokenRefreshed" \in hooks THEN 1 ELSE 0)
                    /\ \A e \in {"hooks.tokenRefreshed", "auth0Manager.getUser",
                                 "lock.getUserInfo"} :
                         e \in Range(last'.effects)
                             => IndexOf(last'.effects, "setTimeout")
                                  < IndexOf(last'.effects, e)
            /\ "hooks.tokenRefreshed" \in Range(last'.effects)
                 => last'.outcome = "installed" /\ Rank(calls'[c]) = 1
            /\ "auth0Manager.getUser" \in Range(last'.effects)
                 => /\ Rank(calls'[c]) = 3
                    /\ last'.outcome = "installed" \/ Rank(calls[c]) \in {1, 2}
                    /\ "tokenRefreshed" \in hooks => Rank(calls[c]) \in {1, 2}
            /\ "hooks.profileRefreshed" \in Range(last'.effects)
                 => /\ Rank(calls[c]) = 3
                    /\ Rank(calls'[c]) = 4
                    /\ Count(last'.effects, "hooks.profileRefreshed") = 1
            /\ (last'.outcome = "resolved"
                  /\ last'.op \notin {"ensureLoggedIn", "renewalTimer"})
                 => /\ Rank(calls[c]) \in {3, 4}
                    /\ "profileRefreshed" \in hooks => Rank(calls[c]) = 4
                    /\ "profileRefreshed" \notin hooks
                         => last'.op = "getUserCallback"]_vars

\* the promise resolved after the profileRefreshed hook settled
C16_Witness ==
    /\ last.op = "profileRefreshedHookSettles"
    /\ last.outcome = "resolved"
    /\ "tokenRefreshed" \in hooks
    /\ authResult # Null

\* C17: ensureLoggedIn called while no valid token is stored issues its own
\* silent renew whatever the other invocations are doing (so two silent renews
\* can be in flight), and each invocation with the widget enabled whose silent
\* renewal sequence fails for good creates and shows a widget of its own,
\* whether or not another invocation already shows one.
C17_ConcurrentCallsNotDeduplicated ==
    /\ [][(/\ last'.op = "ensureLoggedIn"
           /\ (authResult = Null \/ RemainingNow(authResult) <= 0))
          => /\ last'.effects = <<"webAuth.renewAuth">>
             /\ last'.call \in CallIds
             /\ calls[last'.call].pc = "idle"
             /\ calls'[last'.call].pc = "renewing"
             /\ \A d \in CallIds \ {last'.call} : calls'[d] = calls[d]]_vars
    /\ [][\A c \in CallIds :
            (/\ calls[c].pc = "renewing"
             /\ ~calls[c].inner
             /\ calls[c].enableLockWidget
             /\ last'.call = c
             /\ TerminalRenewError(last'))
            => /\ Count(last'.effects, "new Auth0Lock") = 1
               /\ Count(last'.effects, "lock.show") = 1
               /\ calls'[c].pc = "widget"
               /\ calls'[c].lockCreated
               /\ \A d \in CallIds \ {c} : calls'[d] = calls[d]]_vars

\* a second ensureLoggedIn started its silent renew while the first is in flight
C17_Witness ==
    /\ last.op = "ensureLoggedIn"
    /\ last.effects = <<"webAuth.renewAuth">>
    /\ Cardinality({c \in CallIds : calls[c].pc = "renewing" /\ ~calls[c].inner}) >= 2

\* two widgets on screen, the second shown while the first waits for the user
TwoWidgetsShown ==
    /\ last.op = "renewCallback"
    /\ "lock.show" \in Range(last.effects)
    /\ Cardinality({c \in CallIds : calls[c].pc = "widget"}) >= 2

\* C18: a stored token comes with a non-null renewal timer handle, so that
\* removeLogin and logout, which clear the token only when the handle is
\* non-null, never leave a stored token behind.
C18_TokenImpliesHandle ==
    /\ GetLatestAuthResult # Null => tokenRefreshHandle # NoHandle
    /\ last.op \in {"removeLogin", "logout"}
         => /\ GetLatestAuthResult = Null
            /\ tokenRefreshHandle # NoHandle <=> "clearTimeout" \in Range(last.effects)

\* a token is stored whose renewal timer has already fired: the handle is stale
\* but still non-null
C18_Witness ==
    /\ GetLatestAuthResult # Null
    /\ tokenRefreshHandle # NoHandle
    /\ timers = {}
    /\ last.op = "renewalTimer"

\* C19 as stated: the stored token is null or a result with both tokens, and a
\* silent-renew response that is delivered with an error or lacks a token
\* changes neither the stored token nor the renewal timer.
C19_FailedResponseChangesNothing ==
    [][/\ GetLatestAuthResult' = Null \/ HasTokens(GetLatestAuthResult')
       /\ (last'.op = "renewCallback" /\ last'.outcome # "installed")
            => /\ authResult' = authResult
               /\ timers' = timers
               /\ tokenRefreshHandle' = tokenRefreshHandle]_vars

\* C19 amended: the stored token is null or a result with both tokens that was
\* delivered without error (err falsy); a silent-renew response that is
\* delivered with an error or lacks a token is never stored and never schedules
\* a renewal timer: it leaves token and timer as they were or, when it ends the
\* silent renewal sequence of ensureLoggedIn for good, removeLogin clears them.
C19_FailedResponseNeverInstalled ==
    /\ [](GetLatestAuthResult = Null \/ HasTokens(GetLatestAuthResult))
    /\ [][(authResult' # authResult /\ authResult' # Null)
          => /\ last'.op = "renewCallback"
             /\ last'.outcome = "installed"
             /\ last'.error = NoError]_vars
    /\ [][(last'.op = "renewCallback" /\ last'.outcome # "installed")
          => /\ authResult' \in {authResult, Null}
             /\ timers' \subseteq timers
             /\ tokenRefreshHandle' = tokenRefreshHandle
             /\ "setTimeout" \notin Range(last'.effects)
             /\ (authResult' # authResult \/ timers' # timers)
                  => /\ TerminalRenewError(last')
                     /\ ~calls[last'.call].lockCreated
                     /\ "clearTimeout" \in Range(last'.effects)
                     /\ authResult' = Null
                     /\ timers' = {}]_vars

\* a response without tokens ended the silent renewal for good: removeLogin
\* cancelled the pending renewal timer and the widget is shown
C19_Witness ==
    /\ last.op = "renewCallback"
    /\ last.error.kind = "no_token_available"
    /\ "lock.show" \in Range(last.effects)
    /\ last.cancelled = 1
    /\ GetLatestAuthResult = Null

\* C20: the terminal failure of an invocation's silent renewal sequence invokes
\* the removeLogin hook once if it is configured (whether or not a token was
\* ever stored), before the widget is created and shown or the promise
\* rejects; an invocation invokes the hook at no other point: not when its
\* silent renewal succeeds, not on a retry, and not again once it has a widget.
C20_RemoveLoginHookOnceOnTerminalFailure ==
    /\ [][\A c \in CallIds :
            (/\ calls[c].pc = "renewing"
             /\ ~calls[c].inner
             /\ last'.call = c
             /\ TerminalRenewError(last'))
            => /\ Count(last'.effects, "hooks.removeLogin")
                    = (IF "removeLogin" \in hooks THEN 1 ELSE 0)
               /\ \A e \in {"new Auth0Lock", "lock.show"} :
                    (e \in Range(last'.effects)
                       /\ "hooks.removeLogin" \in Range(last'.effects))
                        => IndexOf(last'.effects, "hooks.removeLogin")
                             < IndexOf(last'.effects, e)
               /\ last'.outcome = "rejected" \/ "lock.show" \in Range(last'.effects)
               /\ ~calls[c].lockCreated
               /\ calls'[c].pc = "idle" \/ calls'[c].lockCreated]_vars
    /\ [][\A c \in CallIds :
            (/\ last'.call = c
             /\ "hooks.removeLogin" \in Range(last'.effects))
            => /\ TerminalRenewError(last')
               /\ calls[c].pc = "renewing"
               /\ ~calls[c].inner
               /\ ~calls[c].lockCreated]_vars
    /\ [][(last'.outcome = "installed" \/ "setTimeout(retry)" \in Range(last'.effects))
          => "hooks.removeLogin" \notin Range(last'.effects)]_vars

\* the hook was invoked before the widget was shown, with no handle ever
\* created (no token was ever stored)
C20_Witness ==
    /\ last.op = "renewCallback"
    /\ IndexOf(last.effects, "hooks.removeLogin") = 1
    /\ "lock.show" \in Range(last.effects)
    /\ tokenRefreshHandle = NoHandle

====
